---- MODULE Spec2Model ----
(***************************************************************************)
(* Model of twitch-command-parser: the settings policy (validSettings),    *)
(* the CommandParser object (settings, setters) and the character scanner  *)
(* of CommandParser.parse.                                                 *)
(*                                                                         *)
(* A JavaScript string is a sequence of one-character strings; indices are *)
(* 0-based as in the source (CharAt, Substring translate them).            *)
(***************************************************************************)
EXTENDS Integers, Sequences, FiniteSets, TLC

VARIABLES
    heap,              \* the ParserSettings objects: heap.parser is this.settings,
                       \* heap.override the object a caller may pass to parse
    settings,          \* parse's local `settings`: a reference into heap
    source,            \* parse's `source` (the sentinel is appended at entry)
    command,           \* the Command under construction / returned
    i,                 \* loop index of the scan
    bufferStartIndex,  \* start of the token being read
    keyBuffer,         \* pending parameter key
    longType,          \* active quote character
    state,             \* enum State
    pc,                \* "idle", "entry", "scan", "returned", "thrown"
    error,             \* the error thrown, if any
    valid,             \* last result of CommandParser.validSettings()
    prev,              \* history: scanner registers before the last scan step
    tokens,            \* history: tokens closed so far, in closing order
    call               \* history: the settings argument of the last parse call
                       \* and the heap as it was when the call was made

vars == <<heap, settings, source, command, i, bufferStartIndex, keyBuffer,
          longType, state, pc, error, valid, prev, tokens, call>>

----------------------------------------------------------------------------
(* Characters *)

SP == " "
DQ == "\""
SQ == "'"
BS == "\\"
COLON == ":"
Undefined == "undefined"   \* JS `undefined`: what s[k] yields out of range

\* s[k] of a JS string, k >= 0
CharAt(s, k) == IF k >= 0 /\ k < Len(s) THEN s[k + 1] ELSE Undefined

Min(a, b) == IF a <= b THEN a ELSE b
Max(a, b) == IF a <= b THEN b ELSE a

SubstringInclusive(s, a, b) == SubSeq(s, Min(a, b) + 1, Min(Max(a, b) + 1, Len(s)))
\* String.prototype.substring(a, b): [min, max), clamped to the string
Substring(s, a, b) ==
    SubSeq(s, Min(Max(Min(a, b), 0), Len(s)) + 1, Min(Max(Max(a, b), 0), Len(s)))

Range(s) == {s[k] : k \in DOMAIN s}
Last(s) == s[Len(s)]

----------------------------------------------------------------------------
(* settings.ts *)

ChecksValues == {"absent", "minimum", "twitch"}
ForceValues == {"absent", "false", "true"}

\* JS truthiness of the optional boolean forceParse
Truthy(f) == f = "true"

\* RegExp (^"|')|(^$)|( ): a leading ", a ' anywhere, the empty string, a space anywhere
anyOptionPrefixValidation(s) ==
    \/ (Len(s) > 0 /\ s[1] = DQ) \/ SQ \in Range(s)
    \/ s = <<>>
    \/ SP \in Range(s)

TwitchPrefixLeadingOnly(s) == Len(s) > 0 /\ s[1] = SP
\* RegExp (^ )|( {2})
twitchPrefixValidation(s) ==
    \/ Len(s) > 0 /\ s[1] = SP
    \/ \E k \in 1..(Len(s) - 1) : s[k] = SP /\ s[k + 1] = SP

twitchOptionPrefixValidation(s) ==
    \/ (Len(s) > 0 /\ s[1] = DQ) \/ SQ \in Range(s)
    \/ s = <<>>
    \/ SP \in Range(s)

validSettings(st) ==
    LET checks == IF st.checks = "absent" THEN "minimum" ELSE st.checks IN
    IF checks = "twitch"
    THEN ~twitchPrefixValidation(st.prefix) /\ ~twitchOptionPrefixValidation(st.optionPrefix)
    ELSE ~anyOptionPrefixValidation(st.optionPrefix)

----------------------------------------------------------------------------
(* error classes *)

NoIndex == -1
NoError == [name |-> "none", index |-> NoIndex, message |-> <<>>]
\* new ParseError(index, message): "parsing error: at index <index> - <message>"
ParseError(index, message) ==
    [name |-> "ParseError", index |-> index, message |-> message]
\* new ValidationError(message)
ValidationError(message) ==
    [name |-> "ValidationError", index |-> NoIndex, message |-> message]

----------------------------------------------------------------------------
(* JavaScript containers and string replacement, by what they do *)

ArrayUnshift(a, x) == <<x>> \o a
\* Array.prototype.push
ArrayPush(a, x) == Append(a, x)

SetAddAlways(s, x) == Append(s, x)
\* Set.prototype.add: insertion-ordered, an element already present is not added
SetAdd(s, x) == IF x \in Range(s) THEN s ELSE Append(s, x)

MapSetKeepFirst(m, k, v) ==
    IF \E n \in DOMAIN m : m[n][1] = k THEN m ELSE Append(m, <<k, v>>)
\* Map.prototype.set: insertion-ordered entries <<key, value>>; an existing key
\* keeps its place and gets the new value
MapSet(m, k, v) ==
    IF \E n \in DOMAIN m : m[n][1] = k
    THEN [n \in DOMAIN m |-> IF m[n][1] = k THEN <<k, v>> ELSE m[n]]
    ELSE Append(m, <<k, v>>)

\* s.replace(/ab/g, r) for a two-character pattern a b: left to right, non-overlapping
RECURSIVE ReplaceAll(_, _, _, _)
ReplaceAll(s, a, b, r) ==
    IF Len(s) < 2 THEN s
    ELSE IF s[1] = a /\ s[2] = b
         THEN <<r>> \o ReplaceAll(SubSeq(s, 3, Len(s)), a, b, r)
         ELSE <<s[1]>> \o ReplaceAll(Tail(s), a, b, r)

UnescapeQuotesOnly(slice, q) == ReplaceAll(slice, BS, q, q)
\* .replace(longType === "\"" ? re_doubletick : re_tick, longType).replace(re_backslash, "\\")
Unescape(slice, q) == ReplaceAll(ReplaceAll(slice, BS, q, q), BS, BS, BS)

----------------------------------------------------------------------------
(* CommandParser.parse *)

ObjIds == {"parser", "override"}

EmptyCommand ==
    [parserSettings |-> "parser", name |-> <<>>, arguments |-> <<>>,
     options |-> <<>>, parameters |-> <<>>, source |-> <<>>, passedChecks |-> FALSE]

NoPrev == [state |-> "none", start |-> 0, i |-> 0, key |-> <<>>, longType |-> DQ]
Regs == [state |-> state, start |-> bufferStartIndex, i |-> i, key |-> keyBuffer,
         longType |-> longType]

Token(kind, value) ==
    [kind |-> kind, start |-> bufferStartIndex, stop |-> i, key |-> keyBuffer,
     value |-> value]

ValidationIgnoresForceParse(settingsValidation, forceParse) == ~settingsValidation
\* if (!settingsValidation && !settings.forceParse)
ValidationFails(settingsValidation, forceParse) ==
    ~settingsValidation /\ ~Truthy(forceParse)

NoSentinel(s) == s
\* source += " "
Sentinel(s) == s \o <<SP>>

\* lines 82-106: validation, the initial Command, the sentinel, the scanner registers
ParseEntry ==
    /\ pc = "entry"
    /\ LET settingsValidation == validSettings(heap[settings]) IN
       IF ValidationFails(settingsValidation, heap[settings].forceParse)
       THEN /\ pc' = "thrown"
            /\ error' = ValidationError(<<"error: validation failed">>)
            /\ UNCHANGED <<source, command, i, bufferStartIndex, keyBuffer, longType, state>>
       ELSE /\ pc' = "scan"
            /\ command' = [parserSettings |-> settings, name |-> <<>>,
                           arguments |-> <<>>, options |-> <<>>, parameters |-> <<>>,
                           source |-> source, passedChecks |-> settingsValidation]
            /\ source' = Sentinel(source)
            /\ bufferStartIndex' = 0
            /\ keyBuffer' = <<>>
            /\ longType' = DQ
            /\ state' = "Prefix"
            /\ i' = 0
            /\ error' = error
    /\ UNCHANGED <<heap, settings, valid, prev, tokens, call>>

\* one iteration of the for loop that ends in `break`
Step(newState, newStart, newKey, newLong, newCommand, newTokens) ==
    /\ state' = newState
    /\ bufferStartIndex' = newStart
    /\ keyBuffer' = newKey
    /\ longType' = newLong
    /\ command' = newCommand
    /\ tokens' = newTokens
    /\ i' = i + 1
    /\ prev' = Regs
    /\ UNCHANGED <<heap, settings, source, pc, error, valid, call>>

\* an iteration that changes nothing but i
Continue == Step(state, bufferStartIndex, keyBuffer, longType, command, tokens)

\* an iteration that only moves to another state, possibly restarting the buffer
Goto(newState, newStart) ==
    Step(newState, newStart, keyBuffer, longType, command, tokens)

\* an iteration that throws
Throw(e) ==
    /\ pc' = "thrown"
    /\ error' = e
    /\ prev' = Regs
    /\ UNCHANGED <<heap, settings, source, command, i, bufferStartIndex, keyBuffer,
                   longType, state, valid, tokens, call>>

InLoop(s) == pc = "scan" /\ i < Len(source) /\ state = s
c == CharAt(source, i)
bufferIdx == i - bufferStartIndex
prefix == heap[settings].prefix
optionPrefix == heap[settings].optionPrefix

ScanPrefixSpaceFirst ==
    /\ InLoop("Prefix")
    /\ IF c = CharAt(prefix, bufferIdx) THEN Continue
       ELSE IF c = SP
       THEN Throw(ParseError(i, <<"can't have space after prefix">>))
       ELSE IF bufferIdx < Len(prefix)
       THEN Throw(ParseError(i, <<"expected '", CharAt(prefix, bufferIdx), "'">>))
       ELSE Goto("Name", i)

ScanPrefixNoSpaceCheck ==
    /\ InLoop("Prefix")
    /\ IF c = CharAt(prefix, bufferIdx) THEN Continue
       ELSE IF bufferIdx < Len(prefix)
       THEN Throw(ParseError(i, <<"expected '", CharAt(prefix, bufferIdx), "'">>))
       ELSE Goto("Name", i)

ScanPrefix ==
    /\ InLoop("Prefix")
    /\ IF c = CharAt(prefix, bufferIdx) THEN Continue
       ELSE IF bufferIdx < Len(prefix)
       THEN Throw(ParseError(i, <<"expected '", CharAt(prefix, bufferIdx), "'">>))
       ELSE IF c = SP
       THEN Throw(ParseError(i, <<"can't have space after prefix">>))
       ELSE Goto("Name", i)

ScanName ==
    /\ InLoop("Name")
    /\ IF c = SP
       THEN LET name == Substring(source, bufferStartIndex, i) IN
            Step("Default", i, keyBuffer, longType,
                 [command EXCEPT !.name = name],
                 Append(tokens, Token("name", name)))
       ELSE Continue

ScanDefaultDoubleQuoteOnly ==
    /\ InLoop("Default")
    /\ IF c = SP THEN Continue
       ELSE IF c = CharAt(optionPrefix, 0) THEN Goto("OptionPrefix", i)
       ELSE IF c = DQ
       THEN Step("LongArgument", i + 1, keyBuffer, c, command, tokens)
       ELSE Goto("Argument", i)

ScanDefault ==
    /\ InLoop("Default")
    /\ IF c = SP THEN Continue
       ELSE IF c = CharAt(optionPrefix, 0) THEN Goto("OptionPrefix", i)
       ELSE IF c = DQ \/ c = SQ
       THEN Step("LongArgument", i + 1, keyBuffer, c, command, tokens)
       ELSE Goto("Argument", i)

ScanOptionPrefixEmptyOption ==
    /\ InLoop("OptionPrefix")
    /\ IF c = CharAt(optionPrefix, bufferIdx) THEN Continue
       ELSE IF bufferIdx < Len(optionPrefix) THEN Goto("Argument", bufferStartIndex)
       ELSE IF c = SP THEN Goto("Default", i)
       ELSE Goto("Option", i)

ScanOptionPrefix ==
    /\ InLoop("OptionPrefix")
    /\ IF c = CharAt(optionPrefix, bufferIdx) THEN Continue
       ELSE IF bufferIdx < Len(optionPrefix) THEN Goto("Argument", bufferStartIndex)
       ELSE IF c = SP
       THEN Throw(ParseError(i, <<"expected option, options can't be empty">>))
       ELSE Goto("Option", i)

ScanOptionKeepsColon ==
    /\ InLoop("Option")
    /\ IF c = SP
       THEN LET body == Substring(source, bufferStartIndex, i) IN
            Step("Default", i, keyBuffer, longType,
                 [command EXCEPT !.options = SetAdd(@, body)],
                 Append(tokens, Token("option", body)))
       ELSE IF c = COLON
       THEN Step("ParamConnector", i, Substring(source, bufferStartIndex, i + 1),
                 longType, command, tokens)
       ELSE Continue

ScanOption ==
    /\ InLoop("Option")
    /\ IF c = SP
       THEN LET body == Substring(source, bufferStartIndex, i) IN
            Step("Default", i, keyBuffer, longType,
                 [command EXCEPT !.options = SetAdd(@, body)],
                 Append(tokens, Token("option", body)))
       ELSE IF c = COLON
       THEN Step("ParamConnector", i, Substring(source, bufferStartIndex, i),
                 longType, command, tokens)
       ELSE Continue

ScanParamConnectorNoSpaceCheck ==
    /\ InLoop("ParamConnector")
    /\ IF c = DQ \/ c = SQ
       THEN Step("LongParam", i + 1, keyBuffer, c, command, tokens)
       ELSE Goto("Param", i)

ScanParamConnector ==
    /\ InLoop("ParamConnector")
    /\ IF c = SP
       THEN Throw(ParseError(i, <<"parameter value can't be empty (use \"\" instead)">>))
       ELSE IF c = DQ \/ c = SQ
       THEN Step("LongParam", i + 1, keyBuffer, c, command, tokens)
       ELSE Goto("Param", i)

ScanParam ==
    /\ InLoop("Param")
    /\ IF c = SP
       THEN LET value == Substring(source, bufferStartIndex, i) IN
            Step("Default", i, keyBuffer, longType,
                 [command EXCEPT !.parameters = MapSet(@, keyBuffer, value)],
                 Append(tokens, Token("param", value)))
       ELSE Continue

ScanLongParam ==
    /\ InLoop("LongParam")
    /\ IF c = longType
       THEN LET value == Unescape(Substring(source, bufferStartIndex, i), longType) IN
            Step("Default", i, keyBuffer, longType,
                 [command EXCEPT !.parameters = MapSet(@, keyBuffer, value)],
                 Append(tokens, Token("longParam", value)))
       ELSE IF c = BS THEN Goto("EscapeLongParam", bufferStartIndex)
       ELSE Continue

EscapeAnyQuote(ch, q) == ch \in {BS, DQ, SQ}
\* if (c === "\\" || c === longType)
EscapeOk(ch, q) == ch = BS \/ ch = q

ScanEscapeLongParam ==
    /\ InLoop("EscapeLongParam")
    /\ IF EscapeOk(c, longType) THEN Goto("LongParam", bufferStartIndex)
       ELSE Throw(ParseError(i, <<"couldn't escape with character '", c, "'">>))

ScanEscapeLongArgumentLenient ==
    /\ InLoop("EscapeLongArgument")
    /\ Goto("LongArgument", bufferStartIndex)

ScanArgument ==
    /\ InLoop("Argument")
    /\ IF c = SP
       THEN LET value == Substring(source, bufferStartIndex, i) IN
            Step("Default", i, keyBuffer, longType,
                 [command EXCEPT !.arguments = ArrayPush(@, value)],
                 Append(tokens, Token("argument", value)))
       ELSE Continue

ScanLongArgument ==
    /\ InLoop("LongArgument")
    /\ IF c = longType
       THEN LET value == Unescape(Substring(source, bufferStartIndex, i), longType) IN
            Step("Default", i, keyBuffer, longType,
                 [command EXCEPT !.arguments = ArrayPush(@, value)],
                 Append(tokens, Token("longArgument", value)))
       ELSE IF c = BS THEN Goto("EscapeLongArgument", bufferStartIndex)
       ELSE Continue

ScanEscapeLongArgument ==
    /\ InLoop("EscapeLongArgument")
    /\ IF EscapeOk(c, longType) THEN Goto("LongArgument", bufferStartIndex)
       ELSE Throw(ParseError(i, <<"couldn't escape with character '", c, "'">>))

\* the loop condition fails: return command
ParseReturn ==
    /\ pc = "scan"
    /\ ~(i < Len(source))
    /\ pc' = "returned"
    /\ UNCHANGED <<heap, settings, source, command, i, bufferStartIndex, keyBuffer,
                   longType, state, error, valid, prev, tokens, call>>

----------------------------------------------------------------------------
(* Inputs *)

MaxLen == 3      \* raw sources: every string over Alphabet up to this length
MaxBody == 4     \* sources prefix + "a " + every string up to this length
MaxTokens == 3   \* sources prefix + "a" + up to this many tokens
MaxSlice == 4    \* quoted tokens: every quoted text up to this length
MaxName == 2     \* sources prefix + name: every space-free name up to this length
MaxPrefixLen == 3        \* setPrefix: every string over {space, !} up to this length
MaxOptionPrefixLen == 2  \* setOptionPrefix: every string over {space, ", ', -}

Strings(A, n) == UNION {[1..k -> A] : k \in 0..n}

Settings(p, o, ch, f) == [prefix |-> p, optionPrefix |-> o, checks |-> ch, forceParse |-> f]

\* a parser whose prefix ends with a space (as the tests' "do "); it gets the raw
\* and the name inputs only
SpacedPrefixConfig == Settings(<<"!", SP>>, <<"-">>, "twitch", "absent")

\* the settings a parser is constructed with
ParserConfigs ==
    { Settings(<<"!">>, <<"-">>, "absent", "absent"),
      Settings(<<"!">>, <<"-">>, "twitch", "false"),
      Settings(<<"!">>, <<"-", SP>>, "twitch", "true"),
      Settings(<<"!">>, <<"-", SP>>, "minimum", "absent"),
      Settings(<<SP, "!">>, <<"-">>, "twitch", "false"),
      Settings(<<>>, <<SQ>>, "absent", "true"),
      SpacedPrefixConfig }

\* the settings object a caller passes to parse as an override
OverrideConfig == Settings(<<"d", "o", SP>>, <<"o", COLON>>, "minimum", "absent")

Alphabet == {"!", "-", SP, DQ, SQ, BS, COLON, "a"}
BodyAlphabet(st) == {SP, DQ, SQ, BS, COLON, "a"} \cup Range(st.optionPrefix)
SliceAlphabet == {BS, DQ, SQ, "a"}

\* the words a command line is made of, for option prefix o
Words(o) ==
    { <<"a">>, <<"b">>, <<DQ, "a", SP, "b", DQ>>,
      o \o <<"o">>, o \o <<"p">>,
      o \o <<"k", COLON, "v">>, o \o <<"k", COLON, SQ, "w", SQ>>,
      o \o <<"j", COLON, "v">> }

RECURSIVE Lines(_, _)
Lines(W, n) ==
    IF n = 0 THEN {<<>>}
    ELSE LET shorter == Lines(W, n - 1) IN
         shorter \cup {l \o <<SP>> \o w : l \in shorter, w \in W}

RawInputs == Strings(Alphabet, MaxLen)
BodyInputs(st) ==
    {st.prefix \o <<"a", SP>> \o s : s \in Strings(BodyAlphabet(st), MaxBody)}
WordInputs(st) ==
    {st.prefix \o <<"a">> \o l : l \in Lines(Words(st.optionPrefix), MaxTokens)}
Quoted(q) ==
    UNION {{<<q>> \o s, <<q>> \o s \o <<q>>} : s \in Strings(SliceAlphabet, MaxSlice)}
SliceInputs(st) ==
    {st.prefix \o <<"a", SP>> \o open \o quoted :
        open \in {<<>>, st.optionPrefix \o <<"k", COLON>>},
        quoted \in Quoted(DQ) \cup Quoted(SQ)}

NameInputs(st) ==
    {st.prefix \o n \o end :
        n \in Strings(Alphabet \ {SP}, MaxName) \ {<<>>}, end \in {<<>>, <<SP>>}}

\* the command line of the README example (and of the test "example parsing"):
\* !ping "a long arg \\\" and \"" -some-option -some-option 'buh \'' -key:'value'
ExampleSource ==
    << "!", "p", "i", "n", "g", SP, DQ, "a", SP, "l", "o", "n", "g", SP, "a",
       "r", "g", SP, BS, BS, BS, DQ, SP, "a", "n", "d", SP, BS, DQ, DQ, SP,
       "-", "s", "o", "m", "e", "-", "o", "p", "t", "i", "o", "n", SP, "-",
       "s", "o", "m", "e", "-", "o", "p", "t", "i", "o", "n", SP, SQ, "b",
       "u", "h", SP, BS, SQ, SQ, SP, "-", "k", "e", "y", COLON, SQ, "v", "a",
       "l", "u", "e", SQ >>

Inputs(st) ==
    IF st = SpacedPrefixConfig THEN RawInputs \cup NameInputs(st)
    ELSE RawInputs \cup NameInputs(st) \cup BodyInputs(st) \cup WordInputs(st)
            \cup SliceInputs(st) \cup {ExampleSource}
\* bodies made of the option prefix's own characters, spaces and a letter
LookaheadInputs(st) ==
    {st.prefix \o <<"a", SP>> \o s :
        s \in Strings(Range(st.optionPrefix) \cup {SP, "a"}, MaxBody)}
OverrideInputs(st) == NameInputs(st) \cup WordInputs(st) \cup LookaheadInputs(st)

----------------------------------------------------------------------------
(* One parse call on a constructed parser *)

Idle ==
    /\ settings = "parser"
    /\ source = <<>>
    /\ command = EmptyCommand
    /\ i = 0
    /\ bufferStartIndex = 0
    /\ keyBuffer = <<>>
    /\ longType = DQ
    /\ state = "Prefix"
    /\ pc = "idle"
    /\ error = NoError
    /\ valid = "none"
    /\ prev = NoPrev
    /\ tokens = <<>>
    /\ call = [settings |-> "none", heap |-> heap]

\* new CommandParser(settings)
Init ==
    /\ heap \in {[parser |-> k, override |-> OverrideConfig] : k \in ParserConfigs}
    /\ Idle

SettingsArgIgnored(given) == "parser"
\* settings = settings ? settings : this.settings
SettingsArg(given) == IF given = Undefined THEN "parser" ELSE given

\* lines 82-83: parse(src) (given is undefined) or parse(src, given), called when
\* no call is running; the locals and the history of an earlier call are gone
Call(given, src) ==
    /\ pc \in {"idle", "returned", "thrown"}
    /\ settings' = SettingsArg(given)
    /\ source' = src
    /\ call' = [settings |-> given, heap |-> heap]
    /\ pc' = "entry"
    /\ command' = EmptyCommand
    /\ i' = 0
    /\ bufferStartIndex' = 0
    /\ keyBuffer' = <<>>
    /\ longType' = DQ
    /\ state' = "Prefix"
    /\ error' = NoError
    /\ prev' = NoPrev
    /\ tokens' = <<>>
    /\ UNCHANGED <<heap, valid>>

\* the first call on a constructed parser
ParseCall ==
    /\ pc = "idle"
    /\ \E given \in {Undefined, "override"} :
        \E src \in (IF given = Undefined THEN Inputs(heap.parser)
                    ELSE OverrideInputs(heap[given])) :
            Call(given, src)

Next ==
    \/ ParseCall
    \/ ParseEntry
    \/ ScanPrefix
    \/ ScanName
    \/ ScanDefault
    \/ ScanOptionPrefix
    \/ ScanOption
    \/ ScanParamConnector
    \/ ScanParam
    \/ ScanLongParam
    \/ ScanEscapeLongParam
    \/ ScanArgument
    \/ ScanLongArgument
    \/ ScanEscapeLongArgument
    \/ ParseReturn

Spec == Init /\ [][Next]_vars

----------------------------------------------------------------------------
(* The parser object: setters and validSettings() *)

PrefixStrings == Strings({SP, "!"}, MaxPrefixLen)
OptionPrefixStrings == Strings({SP, DQ, SQ, "-"}, MaxOptionPrefixLen)

\* new CommandParser({prefix: "!", optionPrefix: "-"})
InitSettings ==
    /\ heap = [parser |-> Settings(<<"!">>, <<"-">>, "absent", "absent"),
               override |-> OverrideConfig]
    /\ Idle

\* a setter is called between parse calls
SetPrefixTo(p) ==
    /\ pc \in {"idle", "returned", "thrown"}
    /\ heap' = [heap EXCEPT !.parser.prefix = p]
    /\ valid' = "none"
    /\ UNCHANGED <<settings, source, command, i, bufferStartIndex, keyBuffer, longType,
                   state, pc, error, prev, tokens, call>>

SetOptionPrefixTo(o) ==
    /\ pc \in {"idle", "returned", "thrown"}
    /\ heap' = [heap EXCEPT !.parser.optionPrefix = o]
    /\ valid' = "none"
    /\ UNCHANGED <<settings, source, command, i, bufferStartIndex, keyBuffer, longType,
                   state, pc, error, prev, tokens, call>>

SetChecksTo(ch) ==
    /\ pc \in {"idle", "returned", "thrown"}
    /\ heap' = [heap EXCEPT !.parser.checks = ch]
    /\ valid' = "none"
    /\ UNCHANGED <<settings, source, command, i, bufferStartIndex, keyBuffer, longType,
                   state, pc, error, prev, tokens, call>>

setPrefix == \E p \in PrefixStrings : SetPrefixTo(p)

setOptionPrefix == \E o \in OptionPrefixStrings : SetOptionPrefixTo(o)

setChecks == \E ch \in {"minimum", "twitch"} : SetChecksTo(ch)

\* CommandParser.validSettings(): valid is the value it has just returned
validSettingsCall ==
    /\ pc = "idle"
    /\ valid' = IF validSettings(heap.parser) THEN "true" ELSE "false"
    /\ UNCHANGED <<heap, settings, source, command, i, bufferStartIndex, keyBuffer,
                   longType, state, pc, error, prev, tokens, call>>

NextSettings ==
    \/ setPrefix
    \/ setOptionPrefix
    \/ setChecks
    \/ validSettingsCall

SpecSettings == InitSettings /\ [][NextSettings]_vars

----------------------------------------------------------------------------
(* The parser object over its life: setters, in-place changes of the settings *)
(* object and parse calls, in any order                                       *)

ParserPrefixes == {<<"!">>, <<"?">>}
ParserOptionPrefixes == {<<"-">>, <<"-", SP>>}

\* quoted words with an escape
EscapeWords(o) == { <<DQ, BS, DQ, DQ>>, o \o <<"k", COLON, SQ, BS, BS, SQ>> }

\* command lines written for prefix p and option prefix o
CallLines(p, o) ==
    {p \o <<"a">> \o l : l \in Lines(Words(o) \cup EscapeWords(o), 1)}

\* what callers send: lines for either parser prefix and for the override
CallInputs ==
    UNION {CallLines(p, <<"-">>) : p \in ParserPrefixes}
        \cup CallLines(OverrideConfig.prefix, OverrideConfig.optionPrefix)

\* let settings = {prefix: "!", optionPrefix: "-", checks: "twitch"};
\* let parser = new CommandParser(settings)
InitParser ==
    /\ heap = [parser |-> Settings(<<"!">>, <<"-">>, "twitch", "absent"),
               override |-> OverrideConfig]
    /\ Idle

setPrefixBetweenCalls == \E p \in ParserPrefixes : SetPrefixTo(p)

setOptionPrefixBetweenCalls == \E o \in ParserOptionPrefixes : SetOptionPrefixTo(o)

\* settings.forceParse = true, on the object the parser was constructed with
setForceParse ==
    /\ pc \in {"idle", "returned", "thrown"}
    /\ heap' = [heap EXCEPT !.parser.forceParse = "true"]
    /\ UNCHANGED <<settings, source, command, i, bufferStartIndex, keyBuffer, longType,
                   state, pc, error, valid, prev, tokens, call>>

\* parser.parse(src) or parser.parse(src, override), first or later call
parse ==
    \E given \in {Undefined, "override"} : \E src \in CallInputs : Call(given, src)

NextParser ==
    \/ setPrefixBetweenCalls
    \/ setOptionPrefixBetweenCalls
    \/ setChecks
    \/ setForceParse
    \/ parse
    \/ ParseEntry
    \/ ScanPrefix
    \/ ScanName
    \/ ScanDefault
    \/ ScanOptionPrefix
    \/ ScanOption
    \/ ScanParamConnector
    \/ ScanParam
    \/ ScanLongParam
    \/ ScanEscapeLongParam
    \/ ScanArgument
    \/ ScanLongArgument
    \/ ScanEscapeLongArgument
    \/ ParseReturn

SpecParser == InitParser /\ [][NextParser]_vars

----------------------------------------------------------------------------
(* Properties *)

used == heap[settings]                      \* the configuration of the call
called == pc \in {"scan", "returned", "thrown"}   \* parse has passed its entry
HasPrefix(s, p) == Len(p) <= Len(s) /\ SubSeq(s, 1, Len(p)) = p
Text(from, to) == SubSeq(command.source, from + 1, to)  \* input[from, to), 0-based

\* C1: a parse call fails with a ValidationError, before it scans anything,
\* exactly when validSettings is false for the configuration used and forceParse
\* is false or absent; otherwise it scans, it can only fail with a ParseError,
\* and a returned Command has passedChecks = validSettings(configuration).
C1_ValidationGate ==
    called =>
        LET refused == ~validSettings(used) /\ used.forceParse \in {"false", "absent"} IN
        IF refused
        THEN /\ pc = "thrown" /\ error.name = "ValidationError"
             /\ prev = NoPrev /\ i = 0 /\ tokens = <<>> /\ command = EmptyCommand
        ELSE /\ error.name # "ValidationError"
             /\ pc = "thrown" => error.name = "ParseError" /\ prev # NoPrev
             /\ command.passedChecks = validSettings(used)
             /\ command.source \o <<SP>> = source

\* a ValidationError on a source that is malformed as well (wrong first character)
C1_Witness ==
    /\ pc = "thrown" /\ error.name = "ValidationError"
    /\ Len(source) > 0 /\ Len(prefix) > 0 /\ source[1] # prefix[1]

\* the source is prefix + n or prefix + n + " ", n non-empty and free of spaces
NameOnly(src, p) ==
    /\ HasPrefix(src, p)
    /\ LET rest == SubSeq(src, Len(p) + 1, Len(src))
           n == IF rest # <<>> /\ Last(rest) = SP THEN SubSeq(rest, 1, Len(rest) - 1)
                ELSE rest IN
       n # <<>> /\ SP \notin Range(n)
NameIn(src, p) ==
    LET rest == SubSeq(src, Len(p) + 1, Len(src)) IN
    IF Last(rest) = SP THEN SubSeq(rest, 1, Len(rest) - 1) ELSE rest

\* C2: with a policy-valid configuration, parse(P + n) and parse(P + n + " "),
\* n non-empty without spaces, never throw and return name = n with empty
\* arguments, options and parameters.
C2_NameOnly ==
    (pc \in {"entry", "scan", "returned", "thrown"} /\ validSettings(used)
        /\ NameOnly(IF pc = "entry" THEN source ELSE command.source, used.prefix))
    => /\ pc # "thrown"
       /\ pc = "returned" =>
            /\ command.name = NameIn(command.source, used.prefix)
            /\ command.arguments = <<>>
            /\ command.options = <<>>
            /\ command.parameters = <<>>

\* parse(P + n) without the trailing space has returned, for a two-character n
C2_Witness ==
    /\ pc = "returned" /\ validSettings(used)
    /\ NameOnly(command.source, used.prefix)
    /\ Last(command.source) # SP
    /\ Len(command.name) = 2
    /\ Len(used.prefix) > 1

\* C3: when the input ends while the scanner is in Name, Argument, Option or
\* Param (the state in which the appended sentinel is read), the text from the
\* token start to the end of the input is recorded as the name, the last
\* argument, an option, or the value of the pending key; every recorded plain
\* token lies inside the original input, so the sentinel is in none of them.
C3_EndOfInputFlush ==
    pc = "returned" =>
        LET text == Text(prev.start, Len(command.source)) IN
        /\ prev.i = Len(command.source)
        /\ prev.state = "Name" => command.name = text
        /\ prev.state = "Argument" =>
              command.arguments # <<>> /\ Last(command.arguments) = text
        /\ prev.state = "Option" => text \in Range(command.options)
        /\ prev.state = "Param" => <<prev.key, text>> \in Range(command.parameters)
        /\ prev.state \in {"Name", "Argument", "Option", "Param"} =>
              /\ state = "Default"
              /\ Last(tokens).value = text
              /\ Last(tokens).stop = Len(command.source)
        /\ \A k \in DOMAIN tokens :
              /\ tokens[k].stop <= Len(command.source)
              /\ tokens[k].kind \in {"name", "argument", "option", "param"} =>
                    tokens[k].value = Text(tokens[k].start, tokens[k].stop)

\* the input ended inside an unquoted parameter value, which was stored
C3_Witness ==
    /\ pc = "returned" /\ prev.state = "Param"
    /\ <<prev.key, Text(prev.start, Len(command.source))>> \in Range(command.parameters)
    /\ Len(command.arguments) > 0

\* left-to-right decoding of the text between the quotes: \\ yields \, \q yields
\* q, anything else is kept
RECURSIVE Decode(_, _)
Decode(s, q) ==
    IF s = <<>> THEN <<>>
    ELSE IF s[1] = BS /\ Len(s) >= 2 /\ s[2] \in {BS, q}
         THEN <<s[2]>> \o Decode(SubSeq(s, 3, Len(s)), q)
         ELSE <<s[1]>> \o Decode(Tail(s), q)

IsArgument(t) == t.kind \in {"argument", "longArgument"}
IsOption(t) == t.kind = "option"
IsParam(t) == t.kind \in {"param", "longParam"}
IsLong(t) == t.kind \in {"longArgument", "longParam"}
\* what the input says a closed token's value is
Slice(t) == Text(t.start, t.stop)
Quote(t) == command.source[t.start]
InputValue(t) == IF IsLong(t) THEN Decode(Slice(t), Quote(t)) ELSE Slice(t)
\* what the input says a parameter token's key is: the text before its ':'
Colon(t) == IF IsLong(t) THEN t.start - 2 ELSE t.start - 1
InputKey(t) == Text(Colon(t) - Len(t.key), Colon(t))
Count(seq, x) == Cardinality({n \in DOMAIN seq : seq[n] = x})

\* C4: arguments holds the argument tokens of the input, plain and quoted, one
\* element per token, in the order of the tokens' positions in the input.
C4_ArgumentsInInputOrder ==
    called /\ error.name # "ValidationError" =>
        LET args == SelectSeq(tokens, IsArgument) IN
        /\ Len(command.arguments) = Len(args)
        /\ \A k \in DOMAIN args : command.arguments[k] = InputValue(args[k])
        /\ \A j, k \in DOMAIN args : j < k => args[j].stop <= args[k].start

\* the same value given twice with another argument between the two
C4_Witness ==
    /\ pc = "returned"
    /\ Len(command.arguments) = 3
    /\ command.arguments[1] = command.arguments[3]
    /\ command.arguments[1] # command.arguments[2]
    /\ \E k \in DOMAIN tokens : tokens[k].kind = "longArgument"

\* C5: every option token of the input (option prefix, then a body closed by a
\* space) has its body in options exactly once, however often it occurs, and
\* options has as many entries as the input has distinct option bodies.
C5_OptionsCollapse ==
    called /\ error.name # "ValidationError" =>
        LET opts == SelectSeq(tokens, IsOption)
            bodies == {Slice(opts[k]) : k \in DOMAIN opts} IN
        /\ \A k \in DOMAIN opts :
              Text(opts[k].start - Len(optionPrefix), opts[k].start) = optionPrefix
        /\ \A b \in bodies : Count(command.options, b) = 1
        /\ Len(command.options) = Cardinality(bodies)

\* three option tokens, two of them identical: two entries
C5_Witness ==
    /\ pc = "returned"
    /\ Len(SelectSeq(tokens, IsOption)) = 3
    /\ Len(command.options) = 2

\* C6: a parameter key supplied one or more times (option prefix, key, ':',
\* and a value that is closed, quoted or not) has exactly one entry in
\* parameters, whose value is the value of the key's last occurrence in the
\* input; parameters has no other entries.
C6_LastParameterWins ==
    called /\ error.name # "ValidationError" =>
        LET ps == SelectSeq(tokens, IsParam)
            keys == {InputKey(ps[k]) : k \in DOMAIN ps} IN
        /\ \A k \in DOMAIN ps :
              LET key == InputKey(ps[k])
                  last == CHOOSE n \in DOMAIN ps :
                            /\ InputKey(ps[n]) = key
                            /\ \A m \in DOMAIN ps : InputKey(ps[m]) = key => m <= n IN
              /\ Cardinality({n \in DOMAIN command.parameters :
                                command.parameters[n][1] = key}) = 1
              /\ <<key, InputValue(ps[last])>> \in Range(command.parameters)
              /\ CharAt(command.source, Colon(ps[k])) = COLON
              /\ Text(Colon(ps[k]) - Len(key) - Len(optionPrefix),
                      Colon(ps[k]) - Len(key)) = optionPrefix
        /\ Len(command.parameters) = Cardinality(keys)

\* one key given unquoted, then quoted with another value, then unquoted again
C6_Witness ==
    /\ pc = "returned"
    /\ LET ps == SelectSeq(tokens, IsParam) IN
       /\ Len(ps) = 3
       /\ ps[1].key = ps[2].key /\ ps[2].key = ps[3].key
       /\ ps[1].kind = "param" /\ ps[2].kind = "longParam" /\ ps[3].kind = "param"
       /\ InputValue(ps[2]) # InputValue(ps[3])
    /\ Len(command.parameters) = 1

\* C7: the value stored for a closed quoted token is the left-to-right decoding
\* of the text between its quotes.
C7_UnescapeIsDecode ==
    called /\ error.name # "ValidationError" =>
        /\ \A k \in DOMAIN tokens :
              IsLong(tokens[k]) =>
                 /\ Quote(tokens[k]) \in {DQ, SQ}
                 /\ CharAt(command.source, tokens[k].stop) = Quote(tokens[k])
                 /\ tokens[k].value = Decode(Slice(tokens[k]), Quote(tokens[k]))
        /\ \A k \in DOMAIN command.arguments :
              command.arguments[k] = InputValue(SelectSeq(tokens, IsArgument)[k])
        /\ \A e \in Range(command.parameters) :
              \E k \in DOMAIN tokens :
                 IsParam(tokens[k]) /\ e[2] = InputValue(tokens[k])

\* a quoted argument with three backslashes before an escaped quote
C7_Witness ==
    /\ pc = "returned"
    /\ \E k \in DOMAIN tokens :
          /\ tokens[k].kind = "longArgument"
          /\ Slice(tokens[k]) = <<BS, BS, BS, DQ>>
          /\ command.arguments = <<(<<BS, DQ>>)>>

\* C8: the character after a backslash inside a quoted token: a backslash or
\* the active quote keeps the scanner in the same quoted token without an
\* error; any other character makes parse throw ParseError "couldn't escape
\* with character '<c>'" at the index of that character.
C8_EscapeCharacter ==
    prev.state \in {"EscapeLongArgument", "EscapeLongParam"} =>
        LET ch == CharAt(source, prev.i) IN
        /\ CharAt(source, prev.i - 1) = BS
        /\ IF ch \in {BS, prev.longType}
           THEN /\ pc = "scan" /\ error = NoError
                /\ state = (IF prev.state = "EscapeLongArgument" THEN "LongArgument"
                            ELSE "LongParam")
                /\ bufferStartIndex = prev.start /\ longType = prev.longType
                /\ i = prev.i + 1
           ELSE /\ pc = "thrown"
                /\ error = ParseError(prev.i, <<"couldn't escape with character '", ch, "'">>)

\* a backslash before the other quote character inside a quoted parameter value
C8_Witness ==
    /\ pc = "thrown" /\ prev.state = "EscapeLongParam"
    /\ prev.longType = DQ /\ CharAt(source, prev.i) = SQ
    /\ error.index = prev.i

\* C9: under the minimum policy (checks "minimum" or absent) validSettings()
\* returns false exactly when optionPrefix is empty, starts with " or ', or
\* contains a space, and its result is the same for every prefix.
C9_MinimumPolicy ==
    (valid # "none" /\ heap.parser.checks \in {"minimum", "absent"}) =>
        LET o == heap.parser.optionPrefix
            rejected == o = <<>> \/ o[1] \in {DQ, SQ} \/ SP \in Range(o) IN
        /\ (valid = "false") <=> rejected
        /\ \A p \in PrefixStrings :
              validSettings([heap.parser EXCEPT !.prefix = p]) = (valid = "true")

FirstDifference ==
    {k \in 0..(Min(Len(prefix), Len(source)) - 1) :
        /\ CharAt(source, k) # CharAt(prefix, k)
        /\ \A j \in 0..(k - 1) : CharAt(source, j) = CharAt(prefix, j)}

\* C11: when the input with its sentinel first differs from the prefix at an
\* index k below the prefix length, the scan never gets past k, no Command is
\* returned, and the error thrown is ParseError(k, "expected '<prefix[k]>'").
C11_MalformedPrefix ==
    called /\ error.name # "ValidationError" =>
        \A k \in FirstDifference :
            /\ pc # "returned"
            /\ i <= k /\ state = "Prefix"
            /\ command.name = <<>> /\ tokens = <<>>
            /\ pc = "thrown" =>
                  error = ParseError(k, <<"expected '", CharAt(prefix, k), "'">>)
            /\ pc = "scan" /\ i = k => prev.state \in {"none", "Prefix"}

\* a mismatch at the second character of a two-character prefix
C11_Witness ==
    /\ pc = "thrown" /\ error.name = "ParseError"
    /\ Len(prefix) = 2 /\ FirstDifference = {1}
    /\ error.index = 1 /\ error.message = <<"expected '", SP, "'">>


\* C12: a returned Command has a non-empty name, and a call whose input supplies
\* no name after the prefix (the input is the prefix, or a proper part of it)
\* does not return: it ends in a ParseError thrown in state Prefix.
C12_NameNeverEmpty ==
    /\ pc = "returned" => command.name # <<>>
    /\ (pc \in {"returned", "thrown"} /\ error.name # "ValidationError"
            /\ HasPrefix(prefix, command.source))
        => pc = "thrown" /\ error.name = "ParseError" /\ state = "Prefix"


\* C13: a returned Command is never changed: whatever setters and in-place
\* changes follow, its parserSettings still equals, field by field, the
\* configuration that was in effect when its parse call was made.
C13_CommandNeverChanged ==
    pc = "returned" =>
        heap[command.parserSettings] = call.heap[command.parserSettings]


\* the configuration as it stood when the last call was made
callConfig == call.heap[settings]

\* C14: a call without an override uses the parser's settings object as it
\* stands when the call is made (after every setter and in-place change), a
\* call with an override uses the override only: validation, forceParse, the
\* prefix and the option prefix of the call are those of that configuration;
\* and no step of a call changes any settings object.
C14_ConfigurationOfACall ==
    /\ [](pc \in {"entry", "scan", "returned", "thrown"} =>
            /\ call.settings = Undefined => settings = "parser"
            /\ call.settings = "override" => settings = "override"
            /\ pc \in {"entry", "scan"} => heap = call.heap
            /\ pc \in {"returned", "thrown"} =>
                LET refused == ~validSettings(callConfig)
                                /\ callConfig.forceParse \in {"false", "absent"} IN
                /\ error.name = "ValidationError" <=> refused
                /\ pc = "returned" =>
                    /\ command.parserSettings = settings
                    /\ command.passedChecks = validSettings(callConfig)
                    /\ HasPrefix(command.source \o <<SP>>, callConfig.prefix)
                    /\ \A n \in 1..Len(tokens) :
                        tokens[n].kind = "option" =>
                            Text(tokens[n].start - Len(callConfig.optionPrefix),
                                 tokens[n].start) = callConfig.optionPrefix
                /\ (pc = "thrown" /\ ~refused
                        /\ ~HasPrefix(command.source \o <<SP>>, callConfig.prefix))
                    => error.message[1] = "expected '")
    /\ [][(pc \in {"entry", "scan"}) => (heap' = heap)]_vars

\* a call without override returns although the stored settings are invalid:
\* forceParse was set in place, after setOptionPrefix("- ") and setPrefix("?")
C14_Witness ==
    /\ pc = "returned" /\ call.settings = Undefined
    /\ heap = call.heap
    /\ ~validSettings(callConfig) /\ callConfig.forceParse = "true"
    /\ callConfig.prefix = <<"?">> /\ callConfig.optionPrefix = <<"-", SP>>
    /\ command.name = <<"a">> /\ command.arguments = << <<"-", "o">> >>


InQuoted == state \in {"LongArgument", "LongParam", "EscapeLongArgument", "EscapeLongParam"}
Finished == pc \in {"returned", "thrown"}

\* the input has no closing quote q for a quoted text that starts at index k: a
\* backslash and the character after it are read as a pair
RECURSIVE Unclosed(_, _)
Unclosed(k, q) ==
    IF k >= Len(command.source) THEN TRUE
    ELSE IF CharAt(command.source, k) = q THEN FALSE
    ELSE IF CharAt(command.source, k) = BS THEN Unclosed(k + 2, q)
    ELSE Unclosed(k + 1, q)

\* the index of the first character after a backslash, in the unclosed quoted
\* text starting at k, that is neither a backslash nor q (the sentinel after a
\* trailing backslash included); NoIndex if there is none
RECURSIVE BadEscape(_, _)
BadEscape(k, q) ==
    IF k >= Len(command.source) THEN NoIndex
    ELSE IF CharAt(command.source, k) = BS
    THEN IF CharAt(source, k + 1) \in {BS, q} THEN BadEscape(k + 2, q) ELSE k + 1
    ELSE BadEscape(k + 1, q)

\* the call ended inside a quoted token whose closing quote is not in the input
EndedUnclosed ==
    /\ Finished /\ InQuoted
    /\ CharAt(command.source, bufferStartIndex - 1) = longType
    /\ Unclosed(bufferStartIndex, longType)

\* the Command holds the tokens closed before the quote opened, and nothing else
OnlyClosedTokens ==
    /\ \A n \in DOMAIN tokens : tokens[n].stop < bufferStartIndex - 1
    /\ Len(command.arguments) = Len(SelectSeq(tokens, IsArgument))
    /\ Len(command.options) =
          Cardinality({Slice(tokens[n]) : n \in {m \in DOMAIN tokens : IsOption(tokens[m])}})
    /\ Len(command.parameters) =
          Cardinality({InputKey(tokens[n]) : n \in {m \in DOMAIN tokens : IsParam(tokens[m])}})

\* C15 (as stated): when a quoted argument or quoted parameter value is opened
\* and never closed, parse raises no error and returns a Command holding
\* exactly what was completed before the opening quote.
C15_UnterminatedQuoted ==
    EndedUnclosed =>
        /\ pc = "returned" /\ error = NoError
        /\ OnlyClosedTokens

\* C15 (amended): when a quoted argument or quoted parameter value is opened
\* and never closed, then either its text has a backslash followed by something
\* other than a backslash or the quote (the end of the input included) and
\* parse throws ParseError "couldn't escape with character '<c>'" at the index
\* of that character, or parse raises no error and returns a Command holding
\* exactly what was completed before the opening quote.
C15_UnterminatedQuotedOrEscape ==
    EndedUnclosed =>
        LET bad == BadEscape(bufferStartIndex, longType) IN
        IF bad # NoIndex
        THEN /\ pc = "thrown"
             /\ error = ParseError(bad, <<"couldn't escape with character '",
                                           CharAt(source, bad), "'">>)
             /\ state \in {"EscapeLongArgument", "EscapeLongParam"}
        ELSE /\ pc = "returned" /\ error = NoError
             /\ state \in {"LongArgument", "LongParam"}
             /\ OnlyClosedTokens

\* a quoted parameter value that ends with a backslash: the error is at the
\* index equal to the input length
C15_Witness ==
    /\ EndedUnclosed /\ pc = "thrown" /\ state = "EscapeLongParam"
    /\ error.index = Len(command.source)
    /\ keyBuffer = <<"k">>


\* a call on the README example with the README settings
ExampleCall ==
    /\ called /\ command.source = ExampleSource
    /\ used.prefix = <<"!">> /\ used.optionPrefix = <<"-">> /\ used.checks = "twitch"

ExampleName == <<"p", "i", "n", "g">>
ExampleOption ==
    << "s", "o", "m", "e", "-", "o", "p", "t", "i", "o", "n" >>
ExampleParameter == << <<"k", "e", "y">>, <<"v", "a", "l", "u", "e">> >>
\* buh '
ExampleSecondArgument == <<"b", "u", "h", SP, SQ>>
\* a long arg " and "
ExampleFirstArgumentBareQuotes ==
    << "a", SP, "l", "o", "n", "g", SP, "a", "r", "g", SP, DQ, SP, "a", "n",
       "d", SP, DQ >>
\* a long arg \" and "
ExampleFirstArgument ==
    << "a", SP, "l", "o", "n", "g", SP, "a", "r", "g", SP, BS, DQ, SP, "a",
       "n", "d", SP, DQ >>

ExampleResult(first) ==
    /\ pc # "thrown"
    /\ pc = "returned" =>
        /\ command.name = ExampleName
        /\ command.arguments = <<first, ExampleSecondArgument>>
        /\ command.options = <<ExampleOption>>
        /\ command.parameters = <<ExampleParameter>>
        /\ command.passedChecks = TRUE

\* C16 (as stated): the README example parses to name ping, arguments
\* [a long arg " and ", buh '] with both embedded quotes bare, options
\* {some-option}, parameters {key: value}, passedChecks true.
C16_ExampleBareQuotes ==
    ExampleCall => ExampleResult(ExampleFirstArgumentBareQuotes)

\* C16 (amended): the README example parses to name ping, arguments
\* [a long arg \" and ", buh '] (a backslash stays before the first embedded
\* quote, which the input writes with three backslashes), options
\* {some-option}, parameters {key: value}, passedChecks true.
C16_Example ==
    ExampleCall => ExampleResult(ExampleFirstArgument)

\* the example call has returned
C16_Witness ==
    /\ ExampleCall /\ pc = "returned"
    /\ Len(command.arguments) = 2 /\ Len(tokens) = 6


\* the last scan step read a space in state Prefix where the prefix has none
SpaceInPrefix ==
    /\ prev.state = "Prefix"
    /\ CharAt(source, prev.i) = SP
    /\ CharAt(prefix, prev.i) # SP

\* C17 (as stated): a space read in state Prefix before the prefix has been
\* fully consumed, where the prefix expects no space, makes parse fail at that
\* index with ParseError "can't have space after prefix".
C17_SpaceBeforePrefixConsumed ==
    SpaceInPrefix /\ prev.i < Len(prefix) =>
        /\ pc = "thrown"
        /\ error = ParseError(prev.i, <<"can't have space after prefix">>)

\* C17 (amended): a space read in state Prefix where the prefix expects no space
\* makes parse fail at that index: with ParseError "expected '<prefix[index]>'"
\* before the prefix has been fully consumed, with ParseError "can't have space
\* after prefix" when it has (the index is the prefix length).
C17_SpaceInPrefix ==
    SpaceInPrefix =>
        /\ pc = "thrown"
        /\ prev.i <= Len(prefix)
        /\ error = IF prev.i < Len(prefix)
                   THEN ParseError(prev.i, <<"expected '", CharAt(prefix, prev.i), "'">>)
                   ELSE ParseError(prev.i, <<"can't have space after prefix">>)

\* a space of the input right after a two-character prefix
C17_Witness ==
    /\ SpaceInPrefix /\ pc = "thrown"
    /\ Len(prefix) = 2 /\ prev.i = 2 /\ prev.i < Len(command.source)
    /\ error.message = <<"can't have space after prefix">>


\* C18: when the ':' after a parameter key is followed by a space or by the end
\* of the input, parse throws ParseError "parameter value can't be empty (use
\* "" instead)" at the index directly after the ':' (the input length when the
\* ':' is the last character) and stores nothing; any other character after
\* the ':' raises no error. A stored parameter value is empty only for an
\* empty quoted value (key:"" or key:''), which is accepted and stored.
C18_EmptyParameterValue ==
    /\ prev.state = "ParamConnector" =>
        /\ CharAt(source, prev.i - 1) = COLON
        /\ prev.key # <<>>
        /\ IF CharAt(source, prev.i) = SP
           THEN /\ pc = "thrown"
                /\ error = ParseError(prev.i,
                              <<"parameter value can't be empty (use \"\" instead)">>)
                /\ prev.i <= Len(command.source)
                /\ \A n \in DOMAIN tokens : tokens[n].stop < prev.i - 1
                /\ Len(command.parameters) =
                      Cardinality({InputKey(tokens[n]) :
                                     n \in {m \in DOMAIN tokens : IsParam(tokens[m])}})
           ELSE pc = "scan" /\ error = NoError
    /\ called /\ error.name # "ValidationError" =>
        /\ \A n \in DOMAIN tokens :
            IsParam(tokens[n]) =>
                IF tokens[n].kind = "longParam" /\ Slice(tokens[n]) = <<>>
                THEN /\ tokens[n].value = <<>>
                     /\ CharAt(command.source, tokens[n].stop) = Quote(tokens[n])
                     /\ tokens[n].stop = tokens[n].start
                ELSE tokens[n].value # <<>>
        /\ \A e \in Range(command.parameters) :
            e[2] = <<>> =>
                \E n \in DOMAIN tokens :
                    /\ tokens[n].kind = "longParam" /\ Slice(tokens[n]) = <<>>
                    /\ tokens[n].key = e[1]
        /\ (tokens # <<>> /\ Last(tokens).kind = "longParam" /\ Last(tokens).value = <<>>)
            => <<Last(tokens).key, <<>>>> \in Range(command.parameters)

\* the ':' is the last character of the input: the error is at the input length
C18_Witness ==
    /\ prev.state = "ParamConnector" /\ pc = "thrown"
    /\ error.index = Len(command.source)
    /\ CharAt(command.source, Len(command.source) - 1) = COLON


\* the last scan step read the sentinel, with the scanner in state s: the input
\* ended in state s
EndedIn(s) == called /\ prev.state = s /\ prev.i = Len(command.source)

NoToken == {"LongArgument", "LongParam", "EscapeLongArgument", "EscapeLongParam",
            "OptionPrefix", "ParamConnector", "Prefix"}

\* no token reaches into the text from index k on, and arguments has nothing
\* but the closed argument tokens
NothingSince(k) ==
    /\ \A n \in DOMAIN tokens : tokens[n].stop < k
    /\ Len(command.arguments) = Len(SelectSeq(tokens, IsArgument))

LookaheadFailed ==
    /\ prev.state = "OptionPrefix"
    /\ prev.i - prev.start < Len(optionPrefix)
    /\ CharAt(source, prev.i) # CharAt(optionPrefix, prev.i - prev.start)

\* C20: for an option prefix of two or more characters, when a word starts with
\* the first character(s) of the option prefix and then differs from it at
\* index i, the scan goes on in Argument from the word's start with the
\* character at i handled by the Argument rules: a space at i closes the word
\* at once as one argument; no plain argument contains a space; the word adds
\* nothing to options or parameters.
C20_LookaheadFailure ==
    (called /\ error.name # "ValidationError" /\ Len(optionPrefix) >= 2) =>
        /\ LookaheadFailed =>
            /\ pc = "scan" /\ error = NoError
            /\ bufferStartIndex = prev.start
            /\ IF CharAt(source, prev.i) = SP
               THEN /\ state = "Default"
                    /\ tokens # <<>>
                    /\ Last(tokens).kind = "argument"
                    /\ Last(tokens).value = Text(prev.start, prev.i)
                    /\ command.arguments # <<>>
                    /\ Last(command.arguments) = Text(prev.start, prev.i)
               ELSE state = "Argument" /\ \A n \in DOMAIN tokens : tokens[n].stop < prev.start
        /\ \A n \in DOMAIN tokens :
            tokens[n].kind = "argument" => SP \notin Range(tokens[n].value)
        /\ \A n \in DOMAIN command.arguments :
            (SelectSeq(tokens, IsArgument)[n].kind = "argument")
                => SP \notin Range(command.arguments[n])


\* the positions after the first one at which a text has a ':'
ColonAfterFirst(B) == {n \in 2..Len(B) : B[n] = COLON}
Plain(w) == w # <<>> /\ SP \notin Range(w)
\* where the body of a parameter token starts: right after the option prefix
BodyStart(t) == Colon(t) - Len(t.key)

\* what holds of the option-prefixed tokens the scan has completed: an option
\* token's body has no ':' after its first character and is in options; a
\* parameter token's key is the body text before its first such ':' and is a
\* key of parameters; options and parameters hold nothing else; option names,
\* keys and unquoted values are non-empty and free of spaces
CompletedTokens ==
    LET opts == SelectSeq(tokens, IsOption)
        ps == SelectSeq(tokens, IsParam) IN
    /\ \A k \in DOMAIN opts :
        LET B == Slice(opts[k]) IN
        /\ Text(opts[k].start - Len(optionPrefix), opts[k].start) = optionPrefix
        /\ ColonAfterFirst(B) = {}
        /\ Plain(B)
        /\ B \in Range(command.options)
        /\ CharAt(source, opts[k].stop) = SP
    /\ \A k \in DOMAIN ps :
        LET t == ps[k]
            key == Text(BodyStart(t), Colon(t)) IN
        /\ Text(BodyStart(t) - Len(optionPrefix), BodyStart(t)) = optionPrefix
        /\ CharAt(command.source, Colon(t)) = COLON
        /\ ColonAfterFirst(key) = {}
        /\ Plain(key)
        /\ t.key = key
        /\ \E e \in Range(command.parameters) : e[1] = key
        /\ t.kind = "param" => Plain(t.value) /\ t.value = Slice(t)
                                /\ CharAt(source, t.stop) = SP
    /\ Len(command.options) = Cardinality({Slice(opts[k]) : k \in DOMAIN opts})
    /\ Len(command.parameters) = Cardinality({ps[k].key : k \in DOMAIN ps})
    /\ \A o \in Range(command.options) : Plain(o)
    /\ \A e \in Range(command.parameters) : Plain(e[1])

\* C21 (as stated): every option-prefixed token contributes to exactly one of
\* options and parameters: a parameter is stored if and only if its body has a
\* ':' after the first character (the key is the text before the first such
\* ':'), otherwise the body is added to options; so a returned Command has a
\* parameter for the key of a token whose body has such a ':', also when the
\* quoted value after it is never closed.
C21_OneOfOptionsOrParameters ==
    called /\ error.name # "ValidationError" =>
        /\ CompletedTokens
        /\ (pc = "returned" /\ state = "LongParam")
            => \E e \in Range(command.parameters) : e[1] = keyBuffer

\* C21 (amended): every option-prefixed token that the scan completes (closed
\* by a space, by the end of the input, or by the closing quote of its value)
\* contributes to exactly one of options and parameters, by the rule above; a
\* token whose quoted value is never closed contributes to neither. Option
\* names, parameter keys and unquoted parameter values of a returned Command
\* are non-empty and contain no space.
C21_CompletedTokenContributesOnce ==
    called /\ error.name # "ValidationError" =>
        /\ CompletedTokens
        /\ (pc = "returned" /\ state = "LongParam") =>
            /\ CharAt(command.source, bufferStartIndex - 2) = COLON
            /\ \A n \in DOMAIN tokens : tokens[n].stop < bufferStartIndex - 2

\* a body that starts with ':' and has a second ':': the key is ":"
C21_Witness ==
    /\ pc = "returned"
    /\ command.parameters = << <<(<<COLON>>), (<<"a">>)>> >>
    /\ command.options = <<>>
    /\ Len(tokens) = 2 /\ tokens[2].kind = "param"

====
